---- MODULE Spec2Model ----
(***************************************************************************)
(* SysClean: the scan orchestrator (scanner.scan_all) and the deletion     *)
(* engine (cleaner.clean), each running one background worker at a time    *)
(* while the calling thread polls it.                                      *)
(*                                                                         *)
(* A behaviour is one run: either a scan run (run = "scan") over the       *)
(* filtered rule list, or a deletion run (run = "clean") over a ScanResult *)
(* as the review stage hands it over.  A duration is kept as one of two    *)
(* classes: 0 when the worker finished within the first poll interval, 1   *)
(* when it outlived at least one join() timeout.                           *)
(*                                                                         *)
(* The deletion strategies act on a small filesystem (fs); what the        *)
(* operating system answered to each strategy is kept in answers.  A       *)
(* behaviour of SpecMain is one execution of main(): arguments, scan,      *)
(* post-scan filtering, the staged review and the deletion run.  A         *)
(* behaviour of SpecRerun is a deletion run that may be followed by a      *)
(* second one over the same result and the same log directory.             *)
(***************************************************************************)
EXTENDS Integers, Sequences, FiniteSets, TLC

VARIABLES
    run,              \* "scan" | "clean": which engine this behaviour runs
    pc,               \* position of the calling (orchestrator) thread
    profile_rules,    \* scan_all argument: [given |-> BOOLEAN, names |-> set]
    include_registry, \* scan_all argument
    progress_cb,      \* scan_all argument: TRUE iff a progress sink was passed
    rules,            \* scan_all: the filtered rule list
    idx,              \* scan_all: loop index (0-based), rebound each iteration
    error_holder,     \* scan_all: the dict the name error_holder is bound to
    result,           \* the ScanResult: a sequence of categories
    items,            \* clean: the collected selected items
    i,                \* clean: loop index (0-based)
    deleted,          \* clean: counter
    failed,           \* clean: counter
    freed,            \* clean: counter
    log_rows,         \* clean: rows of the audit log, in append order
    log_path,         \* clean: path of the log file ("" before it is chosen)
    result_holder,    \* both engines: the dict the name result_holder is bound to
    workers,          \* every Thread started so far, in start order
    ticks,            \* 1 once a poll timeout elapsed with the current worker alive, else 0
    progress,         \* last call of the progress sink / progress bar
    calls,            \* history: every rule scan / delete strategy invoked, in order
    logfiles,         \* history: the log files written (path :> rows)
    ret,              \* the value returned by the engine ("none" while running)
    fs,               \* the filesystem: path :> "absent" | "file" | "dir"
    answers,          \* history: what the operating system answered to each strategy call
    now,              \* the wall clock, in seconds
    prev_rows,        \* history: the log rows of the deletion run before this one
    again,            \* TRUE iff this deletion run repeats an earlier one
    args,             \* main: the parsed command line
    mpc,              \* main: position of main() ("none" when an engine is called directly)
    exclusions,       \* main: the ExclusionConfig
    cat_idx,          \* phase2_item_drilldown: index (0-based) of the category under review
    exit_code,        \* main: its return value (None while it runs)
    shown             \* history: the review phases presented since phase 1 was last entered

vars == <<run, pc, profile_rules, include_registry, progress_cb, rules, idx,
          error_holder, result, items, i, deleted, failed, freed, log_rows,
          log_path, result_holder, workers, ticks, progress, calls, logfiles, ret,
          fs, answers, now, prev_rows, again, args, mpc, exclusions, cat_idx,
          exit_code, shown>>

scanVars == <<profile_rules, include_registry, progress_cb, rules, idx, error_holder>>
cleanVars == <<items, i, deleted, failed, freed, log_rows, log_path, logfiles>>
envVars == <<fs, answers, now, prev_rows, again>>
mainVars == <<args, mpc, exclusions, cat_idx, exit_code, shown>>

----------------------------------------------------------------------------
\* Bounds of the model.

\* Length of the rule list ALL_RULES that is modelled (a prefix of the real one).
NumRules == 3
\* Most items one category holds.
MaxItems == 2
\* Most categories of a ScanResult handed to a deletion run.
MaxCats == 2
\* Most selected items of a ScanResult handed to a deletion run.
MaxSelected == 3
\* The most selected items of a ScanResult whose deletion is run twice.
MaxRerunSelected == 2
\* The most items the rules of one scan find together.
MaxFound == 2

----------------------------------------------------------------------------
\* Generic helpers.

None == "None"

EmptyDict == [k \in {} |-> TRUE]

\* dict.get(key, default)
Get(d, key, default) == IF key \in DOMAIN d THEN d[key] ELSE default

RECURSIVE SumSeq(_)
SumSeq(s) == IF s = <<>> THEN 0 ELSE Head(s) + SumSeq(Tail(s))

RECURSIVE Flatten(_)
Flatten(ss) == IF ss = <<>> THEN <<>> ELSE Head(ss) \o Flatten(Tail(ss))

Map(s, F(_)) == [k \in 1..Len(s) |-> F(s[k])]

Min(S) == CHOOSE x \in S : \A y \in S : x <= y

\* The elements of a set of integers as an ascending sequence.
RECURSIVE Ascending(_)
Ascending(S) == IF S = {} THEN <<>> ELSE <<Min(S)>> \o Ascending(S \ {Min(S)})

----------------------------------------------------------------------------
\* models.py

ItemTypes == {"file", "directory", "registry_key", "command"}

\* The work items a scan can discover; a path names one item.
CandidateItems ==
    << [path |-> "f1", size |-> 100, item_type |-> "file"],
       [path |-> "d1", size |-> 200, item_type |-> "directory"],
       [path |-> "HKCU\\k1", size |-> 0, item_type |-> "registry_key"],
       [path |-> "cmd1", size |-> 400, item_type |-> "command"],
       [path |-> "f2", size |-> 50, item_type |-> "file"] >>

\* CleanupItem(...): selected defaults to True.
CleanupItem(c, sel) ==
    [path |-> c.path, size |-> c.size, item_type |-> c.item_type, selected |-> sel]

\* CleanupCategory(...): items defaults to [], enabled to True, scan_error to
\* None, duration to 0.
CleanupCategory(name, its, err, dur) ==
    [name |-> name, items |-> its, enabled |-> TRUE, scan_error |-> err,
     scan_duration_s |-> dur]

item_count(cat) == Len(cat.items)

cat_total_size(cat) == SumSeq(Map(cat.items, LAMBDA it : it.size))

\* A slip: the count taken when the category was built, every item selected.
cat_selected_countAtScan(cat) == Len(cat.items)

cat_selected_count(cat) == Len(SelectSeq(cat.items, LAMBDA it : it.selected))

cat_selected_size(cat) ==
    SumSeq(Map(SelectSeq(cat.items, LAMBDA it : it.selected), LAMBDA it : it.size))

total_items(res) == SumSeq(Map(res, item_count))

total_size(res) == SumSeq(Map(res, cat_total_size))

selected_items(res) == SumSeq(Map(res, cat_selected_count))

selected_size(res) == SumSeq(Map(res, cat_selected_size))

----------------------------------------------------------------------------
\* rules/__init__.py

AllRuleNames ==
    << "temp_files", "windows_update", "prefetch", "caches", "logs_reports",
       "delivery_optimization", "installer", "old_windows", "recycle_bin",
       "shader_cache", "icon_cache", "teams_apps", "dev_nodejs", "dev_python",
       "dev_dotnet", "dev_java", "dev_rust_go", "dev_docker", "dev_ide" >>

ALL_RULES == SubSeq(AllRuleNames, 1, NumRules)

\* What a worker's call came to: kind says how it ended, name which rule ran,
\* items what a scan returned, ok what a delete strategy returned, msg the
\* message of what was raised.
Outcome(kind, its, msg, ok) ==
    [kind |-> kind, name |-> "", items |-> its, msg |-> msg, ok |-> ok]

\* What one call of a rule's scan() can do: raise, or return a category
\* holding the first n candidate items (all selected), 0 <= n <= MaxItems.
ScanOutcomes ==
    { Outcome("raise", <<>>, "boom", FALSE) }
    \cup { Outcome("category",
                   Map(SubSeq(CandidateItems, 1, n), LAMBDA c : CleanupItem(c, TRUE)),
                   "", FALSE) : n \in 0..MaxItems }

----------------------------------------------------------------------------
\* threading.Thread

Pending == Outcome("pending", <<>>, "", FALSE)

NoItem == [path |-> "", size |-> 0, item_type |-> None, selected |-> FALSE]

\* Thread(target=..., daemon=True) followed by start().
Thread(target, itm) == [target |-> target, st |-> "alive", itm |-> itm, out |-> Pending]

\* A slip: a worker is never seen to have ended.
is_aliveForever(w) == TRUE

\* worker.is_alive()
is_alive(w) == w.st # "done"

\* The duration class after one more poll timeout.
Tick(t) == IF t = 0 THEN t + 1 ELSE t

\* The thread the name `worker` is bound to: the last one started.
worker == workers[Len(workers)]

----------------------------------------------------------------------------
\* scanner.py: scan_all

\* A slip: the filter is not applied.
FilterRulesAll(pr, inc) == ALL_RULES

\* rules = [r for r in ALL_RULES if ...]: by profile_rules when it is given,
\* else every rule not named "registry" unless include_registry.
FilterRules(pr, inc) ==
    IF pr.given
    THEN SelectSeq(ALL_RULES, LAMBDA r : r \in pr.names)
    ELSE SelectSeq(ALL_RULES, LAMBDA r : inc \/ r # "registry")

\* A slip: the sink is handed the loop index of the first iteration.
emit_progressFromZero(label, completed_count) ==
    IF ~progress_cb
    THEN progress
    ELSE [label |-> label, completed |-> 0, total |-> Len(rules)]

\* emit_progress(label, completed_count): the sink's last call, if there is a sink.
emit_progress(label, completed_count) ==
    IF ~progress_cb
    THEN progress
    ELSE [label |-> label, completed |-> completed_count, total |-> Len(rules)]

\* A slip: the worker sees the name as the loop leaves it, bound to the last rule.
rule_moduleRebound == rules[Len(rules)]

\* The module the name rule_module is bound to when a worker evaluates it.
rule_module == rules[idx + 1]

ScanBegin ==
    /\ run = "scan" /\ pc = "begin"
    /\ rules' = FilterRules(profile_rules, include_registry)
    /\ result' = <<>>
    /\ pc' = "s_loop"
    /\ UNCHANGED <<run, profile_rules, include_registry, progress_cb, idx, error_holder,
                   result_holder, workers, ticks, progress, calls, ret>>
    /\ UNCHANGED cleanVars
    /\ UNCHANGED <<envVars, mainVars>>

\* Top of the for loop: announce the rule, bind fresh holders, start the worker.
ScanStart ==
    /\ run = "scan" /\ pc = "s_loop" /\ idx < Len(rules)
    /\ progress' = emit_progress("run", idx)
    /\ result_holder' = EmptyDict
    /\ error_holder' = EmptyDict
    /\ workers' = Append(workers, Thread("_run_rule", NoItem))
    /\ ticks' = 0
    /\ pc' = "s_poll"
    /\ UNCHANGED <<run, profile_rules, include_registry, progress_cb, rules, idx,
                   result, calls, ret>>
    /\ UNCHANGED cleanVars
    /\ UNCHANGED <<envVars, mainVars>>

\* One turn of the polling loop in which join(timeout=0.2) timed out.
ScanPollTick ==
    /\ run = "scan" /\ pc = "s_poll"
    /\ is_alive(worker)
    /\ ticks' = Tick(ticks)
    /\ progress' = emit_progress("run", idx)
    /\ UNCHANGED <<run, pc, profile_rules, include_registry, progress_cb, rules, idx,
                   error_holder, result, result_holder, workers, calls, ret>>
    /\ UNCHANGED cleanVars
    /\ UNCHANGED <<envVars, mainVars>>

\* A slip: a category is put in front of those collected so far.
ScanAppendInFront(res, eh, rh, name, dur) ==
    IF eh # EmptyDict
    THEN <<CleanupCategory(name, <<>>, eh["trace"], dur)>> \o res
    ELSE IF "category" \in DOMAIN rh /\ item_count(rh["category"]) > 0
         THEN <<[rh["category"] EXCEPT !.scan_duration_s = dur]>> \o res
         ELSE res

\* A slip: a category without items is kept.
ScanAppendEmpty(res, eh, rh, name, dur) ==
    IF eh # EmptyDict
    THEN Append(res, CleanupCategory(name, <<>>, eh["trace"], dur))
    ELSE IF "category" \in DOMAIN rh
         THEN Append(res, [rh["category"] EXCEPT !.scan_duration_s = dur])
         ELSE res

\* A slip: a rule that failed leaves no category.
ScanAppendNoError(res, eh, rh, name, dur) ==
    IF eh # EmptyDict
    THEN res
    ELSE IF "category" \in DOMAIN rh /\ item_count(rh["category"]) > 0
         THEN Append(res, [rh["category"] EXCEPT !.scan_duration_s = dur])
         ELSE res

\* The categories after the worker's outcome is recorded.
ScanAppend(res, eh, rh, name, dur) ==
    IF eh # EmptyDict
    THEN Append(res, CleanupCategory(name, <<>>, eh["trace"], dur))
    ELSE IF "category" \in DOMAIN rh /\ item_count(rh["category"]) > 0
         THEN Append(res, [rh["category"] EXCEPT !.scan_duration_s = dur])
         ELSE res

\* A slip: the holders are read after one join(timeout), the worker alive or not.
ScanRecordNoWait ==
    /\ run = "scan" /\ pc = "s_poll"
    /\ result' = ScanAppend(result, error_holder, result_holder, rules[idx + 1], ticks)
    /\ progress' = emit_progress(IF error_holder # EmptyDict THEN "err" ELSE "ok", idx + 1)
    /\ idx' = idx + 1
    /\ pc' = "s_loop"
    /\ UNCHANGED <<run, profile_rules, include_registry, progress_cb, rules,
                   error_holder, result_holder, workers, ticks, calls, ret>>
    /\ UNCHANGED cleanVars
    /\ UNCHANGED <<envVars, mainVars>>

\* The loop is left once the worker is dead; the outcome is read and recorded.
ScanRecord ==
    /\ run = "scan" /\ pc = "s_poll"
    /\ ~is_alive(worker)
    /\ result' = ScanAppend(result, error_holder, result_holder, rules[idx + 1], ticks)
    /\ progress' = emit_progress(IF error_holder # EmptyDict THEN "err" ELSE "ok", idx + 1)
    /\ idx' = idx + 1
    /\ pc' = "s_loop"
    /\ UNCHANGED <<run, profile_rules, include_registry, progress_cb, rules,
                   error_holder, result_holder, workers, ticks, calls, ret>>
    /\ UNCHANGED cleanVars
    /\ UNCHANGED <<envVars, mainVars>>

ScanReturn ==
    /\ run = "scan" /\ pc = "s_loop" /\ idx >= Len(rules)
    /\ progress' = emit_progress("Done", Len(rules))
    /\ ret' = [kind |-> "ScanResult", categories |-> result]
    /\ pc' = "done"
    /\ UNCHANGED <<run, profile_rules, include_registry, progress_cb, rules, idx,
                   error_holder, result, result_holder, workers, ticks, calls>>
    /\ UNCHANGED cleanVars
    /\ UNCHANGED <<envVars, mainVars>>

\* result_holder after _run_rule: `if category: result_holder["category"] = category`.
StoreCategory(rh, o) ==
    IF o.kind = "category"
    THEN ("category" :> CleanupCategory(o.name, o.items, None, 0)) @@ rh
    ELSE rh

\* A slip: no except clause; a scan() that raises ends the thread and stores nothing.
StoreTraceNoExcept(eh, o) == eh

\* error_holder after _run_rule: `except Exception: error_holder["trace"] = ...`.
StoreTrace(eh, o) ==
    IF o.kind = "raise" THEN ("trace" :> "Traceback") @@ eh ELSE eh

\* _run_rule: rule_module.scan() runs and returns or raises, the outcome is
\* stored in the holder the names are bound to now, and the thread ends.
RunRule(k) ==
    /\ workers[k].target = "_run_rule" /\ workers[k].st = "alive"
    /\ idx < Len(rules)
    /\ \E o \in ScanOutcomes :
          LET out == [o EXCEPT !.name = rule_module] IN
          /\ total_items(result) + Len(o.items) <= MaxFound
          /\ workers' = [workers EXCEPT ![k].st = "done", ![k].out = out]
          /\ result_holder' = StoreCategory(result_holder, out)
          /\ error_holder' = StoreTrace(error_holder, out)
    /\ calls' = Append(calls, rule_module)
    /\ UNCHANGED <<run, pc, profile_rules, include_registry, progress_cb, rules, idx,
                   result, ticks, progress, ret>>
    /\ UNCHANGED cleanVars
    /\ UNCHANGED <<envVars, mainVars>>

----------------------------------------------------------------------------
\* cleaner.py: the delete strategies, each a function of what the operating
\* system answers.

\* A slip: a file that is not there counts as a failure.
delete_fileMustExist(isfile, oserror) == isfile /\ ~oserror

\* os.path.isfile, then chmod + remove.
delete_file(isfile, oserror) ==
    IF ~isfile THEN TRUE ELSE ~oserror

\* A slip: rmtree's return is taken for success, the path is not looked at again.
delete_directoryNoCheck(isdir, oserror, exists_after) ==
    IF ~isdir THEN TRUE ELSE ~oserror

\* os.path.isdir, then rmtree(onerror=_on_rm_error), then os.path.exists.
delete_directory(isdir, oserror, exists_after) ==
    IF ~isdir THEN TRUE
    ELSE IF oserror THEN FALSE
    ELSE ~exists_after

\* A slip: the return code is not looked at.
run_cleanup_commandAnyExit(proc) == proc \notin {"timeout", "oserror"}

\* subprocess.run(..., timeout=600): proc is how the process ended.
run_cleanup_command(proc) ==
    IF proc \in {"timeout", "oserror"} THEN FALSE ELSE proc = "exit0"

\* A slip: a collaborator that cannot be imported counts as nothing to do.
delete_registry_keyOptional(import_error, key_deleted) ==
    import_error \/ key_deleted

\* from registry_analyzer import delete_registry_key, then the call.
delete_registry_key(import_error, key_deleted) ==
    IF import_error THEN FALSE ELSE key_deleted

\* The paths of the filesystem: those of the file and directory items, and one
\* entry inside the directory.
FsPaths == {"f1", "f2", "d1", "d1\\x"}

\* The entries a directory tree holds below its root.
Children(p) == IF p = "d1" THEN {"d1\\x"} ELSE {}

\* os.path.isfile / os.path.isdir / os.path.exists
isfile(f, p) == p \in DOMAIN f /\ f[p] = "file"

isdir(f, p) == p \in DOMAIN f /\ f[p] = "dir"

exists(f, p) == p \in DOMAIN f /\ f[p] # "absent"

\* The filesystem without the entries S.
Remove(f, S) == [p \in DOMAIN f |-> IF p \in S THEN "absent" ELSE f[p]]

\* _on_rm_error: clear the read-only attribute and retry once; a retry that
\* fails is swallowed.  TRUE iff the entry is gone afterwards.
on_rm_error(retry_fails) == ~retry_fails

\* The entries of the tree at path that stay: those whose removal failed
\* (locked) and whose retry failed too.
Stuck(f, path, locked, retry_fails) ==
    { e \in (Children(path) \cup {path}) :
        exists(f, e) /\ e \in locked /\ ~on_rm_error(e \in retry_fails) }

\* shutil.rmtree(path, onerror=_on_rm_error): the entries below path are
\* removed, but for the stuck ones; the root goes only if nothing is left in it.
rmtree(f, path, stuck) ==
    LET gone == { c \in Children(path) : c \notin stuck } IN
    IF stuck = {} THEN Remove(f, gone \cup {path}) ELSE Remove(f, gone)

\* The messages of what a strategy may raise that it does not catch itself
\* (str(exc) is empty for an exception built without arguments).
FaultMessages == {"", "boom"}

\* One way a strategy call can end: the outcome, the filesystem it leaves, and
\* what the operating system answered.
Effect(o, f, answer) == [out |-> o, fs |-> f, os |-> answer]

\* Every way the dispatch of _do_delete on one item can end on filesystem f.
\* A strategy that returns before it asks the operating system for anything
\* (the path is not there) cannot raise.  rmtree hands every OSError to
\* _on_rm_error, which swallows it, so the except clause of _delete_directory
\* is not reached.
DeleteOutcomes(itm, f) ==
    CASE itm.item_type = "command" ->
             { Effect(Outcome("return", <<>>, "", run_cleanup_command(p)), f, p) :
                 p \in {"exit0", "exit1", "timeout", "oserror"} }
             \cup { Effect(Outcome("raise", <<>>, m, FALSE), f, "raise") : m \in FaultMessages }
      [] itm.item_type = "registry_key" ->
             { Effect(Outcome("return", <<>>, "", delete_registry_key(ie, kd)), f,
                      IF ie THEN "import_error" ELSE IF kd THEN "deleted" ELSE "oserror") :
                 ie \in BOOLEAN, kd \in BOOLEAN }
             \cup { Effect(Outcome("raise", <<>>, m, FALSE), f, "raise") : m \in FaultMessages }
      [] itm.item_type = "file" ->
             IF ~isfile(f, itm.path)
             THEN { Effect(Outcome("return", <<>>, "", delete_file(FALSE, FALSE)), f,
                           IF exists(f, itm.path) THEN "not_a_file" ELSE "absent") }
             ELSE { Effect(Outcome("return", <<>>, "", delete_file(TRUE, e)),
                           IF e THEN f ELSE Remove(f, {itm.path}),
                           IF e THEN "oserror" ELSE "removed") : e \in BOOLEAN }
                  \cup { Effect(Outcome("raise", <<>>, m, FALSE), f, "raise") :
                            m \in FaultMessages }
      [] itm.item_type = "directory" ->
             IF ~isdir(f, itm.path)
             THEN { Effect(Outcome("return", <<>>, "", delete_directory(FALSE, FALSE, FALSE)),
                           f, IF exists(f, itm.path) THEN "not_a_directory" ELSE "absent") }
             ELSE { Effect(Outcome("return", <<>>, "",
                                   delete_directory(TRUE, FALSE,
                                       exists(rmtree(f, itm.path,
                                                     Stuck(f, itm.path, locked, retry_fails)),
                                              itm.path))),
                           rmtree(f, itm.path, Stuck(f, itm.path, locked, retry_fails)),
                           IF Stuck(f, itm.path, locked, retry_fails) # {}
                           THEN "retry_failed"
                           ELSE IF locked # {} THEN "retried"
                           ELSE IF \E c \in Children(itm.path) : exists(f, c)
                           THEN "removed_tree" ELSE "removed") :
                        locked \in SUBSET (Children(itm.path) \cup {itm.path}),
                        retry_fails \in SUBSET (Children(itm.path) \cup {itm.path}) }
                  \cup { Effect(Outcome("raise", <<>>, m, FALSE), f, "raise") :
                            m \in FaultMessages }

----------------------------------------------------------------------------
\* cleaner.py: clean

\* A slip: the selected flag is not looked at.
CollectAll(res) == Flatten(Map(res, LAMBDA cat : cat.items))

\* The selected items, in category order then item order.
CollectSelected(res) ==
    Flatten(Map(res, LAMBDA cat : SelectSeq(cat.items, LAMBDA it : it.selected)))

\* os.path.join(log_dir, "cleanup_log_<timestamp>.csv"): the timestamp is the
\* wall clock at the start of the run, to the second.
LogPath(t) == <<"cleanup_log", t>>

\* The tuple clean() returns; the duration is "0.0" or "elapsed" (a measured time).
CleanResult(d, f, fr, path, dur) ==
    [kind |-> "clean", deleted |-> d, failed |-> f, freed |-> fr,
     log_path |-> path, duration |-> dur]

\* The early return of a run without selected items.
ZeroResult == CleanResult(0, 0, 0, "", "0.0")

\* A slip: no early return; a run without selected items goes through the loop.
CleanBeginNoEarlyReturn ==
    /\ run = "clean" /\ pc = "begin"
    /\ items' = CollectSelected(result)
    /\ log_path' = LogPath(now)
    /\ progress' = [label |-> "Cleaning...", completed |-> 0, total |-> Len(items')]
    /\ pc' = "c_loop"
    /\ UNCHANGED <<run, result, i, deleted, failed, freed, log_rows, logfiles,
                   result_holder, workers, ticks, calls, ret>>
    /\ UNCHANGED scanVars
    /\ UNCHANGED <<envVars, mainVars>>

CleanBegin ==
    /\ run = "clean" /\ pc = "begin"
    /\ items' = CollectSelected(result)
    /\ IF items' = <<>>
       THEN /\ ret' = ZeroResult
            /\ pc' = "done"
            /\ UNCHANGED <<log_path, progress>>
       ELSE /\ log_path' = LogPath(now)
            /\ progress' = [label |-> "Cleaning...", completed |-> 0, total |-> Len(items')]
            /\ pc' = "c_loop"
            /\ UNCHANGED ret
    /\ UNCHANGED <<run, result, i, deleted, failed, freed, log_rows, logfiles,
                   result_holder, workers, ticks, calls>>
    /\ UNCHANGED scanVars
    /\ UNCHANGED <<envVars, mainVars>>

\* Top of the for loop: bind a fresh holder, start the worker (itm=item is bound now).
CleanStart ==
    /\ run = "clean" /\ pc = "c_loop" /\ i < Len(items)
    /\ result_holder' = EmptyDict
    /\ workers' = Append(workers, Thread("_do_delete", items[i + 1]))
    /\ ticks' = 0
    /\ pc' = "c_poll"
    /\ UNCHANGED <<run, result, progress, calls, ret>>
    /\ UNCHANGED scanVars
    /\ UNCHANGED cleanVars
    /\ UNCHANGED <<envVars, mainVars>>

\* One turn of the polling loop in which join(timeout=0.5) timed out.
CleanPollTick ==
    /\ run = "clean" /\ pc = "c_poll"
    /\ is_alive(worker)
    /\ ticks' = Tick(ticks)
    /\ progress' = [progress EXCEPT !.completed = i]
    /\ UNCHANGED <<run, pc, result, result_holder, workers, calls, ret>>
    /\ UNCHANGED scanVars
    /\ UNCHANGED cleanVars
    /\ UNCHANGED <<envVars, mainVars>>

\* The error text of a log row.
ErrorMsg(success, err) ==
    IF ~success /\ err = "" THEN "Delete returned False" ELSE err

\* One row of the log (timestamp, category and duration_ms are not kept).
LogRow(item, success, err) ==
    [path |-> item.path, type |-> item.item_type, size_bytes |-> item.size,
     status |-> IF success THEN "deleted" ELSE "failed",
     error |-> ErrorMsg(success, err)]

\* A slip: the size is added whatever the outcome.
FreedAlways(fr, item, success) == fr + item.size

\* freed after one item.
Freed(fr, item, success) == IF success THEN fr + item.size ELSE fr

\* failed after one item.
Failed(f, success) == IF success THEN f ELSE f + 1

\* deleted after one item.
Deleted(d, success) == IF success THEN d + 1 ELSE d

\* A slip: each row is put in front of the rows written so far.
AddRowInFront(rows, row) == <<row>> \o rows

\* log_rows.append(row)
AddRow(rows, row) == Append(rows, row)

\* A slip: the holder is read after one join(timeout), the worker alive or not.
CleanRecordNoWait ==
    /\ run = "clean" /\ pc = "c_poll"
    /\ LET item == items[i + 1]
           success == Get(result_holder, "ok", FALSE)
           error_msg == Get(result_holder, "err", "")
       IN /\ deleted' = Deleted(deleted, success)
          /\ failed' = Failed(failed, success)
          /\ freed' = Freed(freed, item, success)
          /\ log_rows' = AddRow(log_rows, LogRow(item, success, error_msg))
    /\ progress' = [progress EXCEPT !.completed = i + 1]
    /\ i' = i + 1
    /\ pc' = "c_loop"
    /\ UNCHANGED <<run, result, items, log_path, logfiles, result_holder, workers,
                   ticks, calls, ret>>
    /\ UNCHANGED scanVars
    /\ UNCHANGED <<envVars, mainVars>>

\* The loop is left once the worker is dead; the holder is read and recorded.
CleanRecord ==
    /\ run = "clean" /\ pc = "c_poll"
    /\ ~is_alive(worker)
    /\ LET item == items[i + 1]
           success == Get(result_holder, "ok", FALSE)
           error_msg == Get(result_holder, "err", "")
       IN /\ deleted' = Deleted(deleted, success)
          /\ failed' = Failed(failed, success)
          /\ freed' = Freed(freed, item, success)
          /\ log_rows' = AddRow(log_rows, LogRow(item, success, error_msg))
    /\ progress' = [progress EXCEPT !.completed = i + 1]
    /\ i' = i + 1
    /\ pc' = "c_loop"
    /\ UNCHANGED <<run, result, items, log_path, logfiles, result_holder, workers,
                   ticks, calls, ret>>
    /\ UNCHANGED scanVars
    /\ UNCHANGED <<envVars, mainVars>>

\* A slip: only the last row reaches the file.
write_logLastRow(files, path, rows, opened, n) ==
    IF rows = <<>> \/ ~opened THEN files
    ELSE [p \in DOMAIN files \cup {path} |->
             IF p = path THEN <<rows[Len(rows)]>> ELSE files[p]]

\* _write_log: nothing for no rows; else open(log_path, "w") creates or
\* truncates the file, unless it fails, and the first n rows reach it: all of
\* them, unless an OSError cuts the writing short.  Either OSError is swallowed.
write_log(files, path, rows, opened, n) ==
    IF rows = <<>> \/ ~opened THEN files
    ELSE [p \in DOMAIN files \cup {path} |->
             IF p = path THEN SubSeq(rows, 1, n) ELSE files[p]]

\* What the operating system answered to _write_log.
LogAnswer(rows, opened, n) ==
    IF opened /\ n = Len(rows) THEN "log_written" ELSE "log_failed"

\* After the loop: write the log, return the counts.
CleanReturn ==
    /\ run = "clean" /\ pc = "c_loop" /\ i >= Len(items)
    /\ \E opened \in BOOLEAN, n \in 0..Len(log_rows) :
          /\ logfiles' = write_log(logfiles, log_path, log_rows, opened, n)
          /\ answers' = Append(answers, LogAnswer(log_rows, opened, n))
    /\ ret' = CleanResult(deleted, failed, freed, log_path, "elapsed")
    /\ pc' = "done"
    /\ UNCHANGED <<run, result, items, i, deleted, failed, freed, log_rows, log_path,
                   result_holder, workers, ticks, progress, calls>>
    /\ UNCHANGED scanVars
    /\ UNCHANGED <<fs, now, prev_rows, again>>
    /\ UNCHANGED mainVars

\* _do_delete: the strategy for itm runs; what it returned is stored as
\* result_holder["ok"] and the thread ends, or, when it raised, False is stored
\* and the except branch has one more store to do.
DoDelete(k) ==
    /\ workers[k].target = "_do_delete" /\ workers[k].st = "alive"
    /\ \E e \in DeleteOutcomes(workers[k].itm, fs) :
          LET o == e.out IN
          /\ workers' = [workers EXCEPT ![k].out = o,
                             ![k].st = IF o.kind = "raise" THEN "raised" ELSE "done"]
          /\ result_holder' = ("ok" :> (o.kind = "return" /\ o.ok)) @@ result_holder
          /\ fs' = e.fs
          /\ answers' = Append(answers, e.os)
    /\ calls' = Append(calls, workers[k].itm.path)
    /\ UNCHANGED <<run, pc, result, ticks, progress, ret, now, prev_rows, again>>
    /\ UNCHANGED scanVars
    /\ UNCHANGED cleanVars
    /\ UNCHANGED mainVars

\* _do_delete, end of the except branch: result_holder["err"] = str(exc); the thread ends.
DoDeleteExcept(k) ==
    /\ workers[k].target = "_do_delete" /\ workers[k].st = "raised"
    /\ result_holder' = ("err" :> workers[k].out.msg) @@ result_holder
    /\ workers' = [workers EXCEPT ![k].st = "done"]
    /\ UNCHANGED <<run, pc, result, ticks, progress, calls, ret>>
    /\ UNCHANGED scanVars
    /\ UNCHANGED cleanVars
    /\ UNCHANGED <<envVars, mainVars>>

----------------------------------------------------------------------------
\* The runs.

NoProgress == [label |-> "", completed |-> 0, total |-> 0]

NoReturn == [kind |-> "none"]

\* The profile_rules main() can pass to scan_all: None, or a set of rule names.
ScanArgs ==
    { [given |-> FALSE, names |-> {}] }
    \cup { [given |-> TRUE, names |-> S] : S \in SUBSET { ALL_RULES[k] : k \in 1..NumRules } }

\* Where the candidate items can lie in n categories: place[k] = 0 when item k
\* was not found, else its category; the items keep their order across categories.
Placements(n) ==
    { place \in [1..Len(CandidateItems) -> 0..n] :
        \A k, l \in 1..Len(CandidateItems) :
            (k < l /\ place[k] # 0 /\ place[l] # 0) => place[k] <= place[l] }

\* A ScanResult as the review stage can hand it to clean(): n categories, the
\* candidate items placed in them, each selected or not; a category without
\* items may carry a scan error.
MkResult(n, place, sel, errs) ==
    [c \in 1..n |->
        LET P == { k \in 1..Len(CandidateItems) : place[k] = c } IN
        CleanupCategory(AllRuleNames[c],
                        [j \in 1..Cardinality(P) |->
                            CleanupItem(CandidateItems[Ascending(P)[j]],
                                        sel[Ascending(P)[j]])],
                        IF c \in errs /\ P = {} THEN "Traceback" ELSE None, 0)]

CleanInputs ==
    UNION { { MkResult(n, place, sel, errs) :
                place \in Placements(n),
                sel \in [1..Len(CandidateItems) -> BOOLEAN],
                errs \in SUBSET (1..n) } : n \in 0..MaxCats }

\* What a path of the filesystem is when it is there.
Kind(p) == IF p = "d1" THEN "dir" ELSE "file"

\* The paths of the selected items of a result.
ItemPaths(res) ==
    UNION { { res[c].items[j].path : j \in { n \in 1..Len(res[c].items) : res[c].items[n].selected } } :
            c \in 1..Len(res) }

\* What a path can hold at deletion time: since the scan, f2 may have become
\* a directory and d1 a regular file.
Kinds(p) ==
    IF p = "f2" THEN {"file", "dir"}
    ELSE IF p = "d1" THEN {"dir", "file"}
    ELSE {Kind(p)}

\* Every path is there.
EverythingThere == [p \in FsPaths |-> Kind(p)]

\* The filesystems a deletion run over res can meet: the path of a selected
\* item is there or has gone since the scan, a directory holds its entry or is
\* empty, and nothing the run does not look at is there.
Filesystems(res) ==
    { f \in [FsPaths -> {"absent", "file", "dir"}] :
        \A p \in FsPaths :
            /\ f[p] \in {"absent"} \cup Kinds(p)
            /\ f[p] # "absent" =>
                  \/ p \in ItemPaths(res)
                  \/ \E d \in ItemPaths(res) \cap FsPaths : p \in Children(d) /\ f[d] = "dir" }

\* argparse.Namespace: the flags main() reads.
Args(list_profiles, scan_only, dry_run, auto, min_age, profile, exclude) ==
    [list_profiles |-> list_profiles, scan_only |-> scan_only, dry_run |-> dry_run,
     auto |-> auto, min_age |-> min_age, profile |-> profile, exclude |-> exclude,
     include_registry |-> FALSE]

NoArgs == Args(FALSE, FALSE, FALSE, FALSE, 0, None, {})

\* ExclusionConfig(): paths and patterns.
ExclusionConfig(paths, patterns) == [paths |-> paths, patterns |-> patterns]

InitCommon ==
    /\ pc = "begin"
    /\ answers = <<>> /\ now = 0 /\ prev_rows = <<>> /\ again = FALSE
    /\ args = NoArgs /\ mpc = "none" /\ exclusions = ExclusionConfig({}, {}) /\ shown = {}
    /\ cat_idx = 0 /\ exit_code = None
    /\ rules = <<>> /\ idx = 0 /\ error_holder = EmptyDict
    /\ items = <<>> /\ i = 0 /\ deleted = 0 /\ failed = 0 /\ freed = 0
    /\ log_rows = <<>> /\ log_path = ""
    /\ result_holder = EmptyDict /\ workers = <<>> /\ ticks = 0
    /\ progress = NoProgress /\ calls = <<>> /\ logfiles = EmptyDict
    /\ ret = NoReturn

InitScan ==
    /\ run = "scan"
    /\ profile_rules \in ScanArgs
    /\ include_registry \in (IF profile_rules.given THEN {FALSE} ELSE BOOLEAN)
    /\ progress_cb \in BOOLEAN
    /\ result = <<>>
    /\ fs = EverythingThere
    /\ InitCommon

InitClean ==
    /\ run = "clean"
    /\ profile_rules = [given |-> FALSE, names |-> {}]
    /\ include_registry = FALSE
    /\ progress_cb = FALSE
    /\ result \in { r \in CleanInputs :
                       /\ \A c \in 1..Len(r) : item_count(r[c]) <= MaxItems
                       /\ selected_items(r) <= MaxSelected }
    /\ fs \in Filesystems(result)
    /\ InitCommon

----------------------------------------------------------------------------
\* config.py: profiles and exclusions

\* BUILTIN_PROFILES (three of the six).
BUILTIN_PROFILES ==
    [ minimal |-> {"temp_files", "logs_reports", "recycle_bin"},
      standard |-> {"temp_files", "windows_update", "prefetch", "caches", "logs_reports",
                    "delivery_optimization", "installer", "old_windows", "recycle_bin",
                    "shader_cache", "icon_cache", "teams_apps"},
      everything |-> {"temp_files", "windows_update", "prefetch", "caches", "logs_reports",
                      "delivery_optimization", "installer", "old_windows", "recycle_bin",
                      "shader_cache", "icon_cache", "teams_apps", "dev_nodejs",
                      "dev_python", "dev_dotnet", "dev_java", "dev_rust_go", "dev_docker",
                      "dev_ide", "registry"} ]

\* The characters of the strings that name paths and patterns.
Chars(str) ==
    CASE str = "f1" -> <<"f", "1">>
      [] str = "F1" -> <<"F", "1">>
      [] str = "f2" -> <<"f", "2">>
      [] str = "d1" -> <<"d", "1">>
      [] str = "d1\\x" -> <<"d", "1", "\\", "x">>
      [] str = "cmd1" -> <<"c", "m", "d", "1">>
      [] str = "HKCU\\k1" -> <<"H", "K", "C", "U", "\\", "k", "1">>
      [] str = "*X" -> <<"*", "X">>
      [] OTHER -> <<str>>

\* str.lower(), one character.
lower(ch) ==
    CASE ch = "F" -> "f" [] ch = "X" -> "x" [] ch = "H" -> "h" [] ch = "K" -> "k"
      [] ch = "C" -> "c" [] ch = "U" -> "u" [] OTHER -> ch

\* os.path.normpath(path).lower() of a path that is already normal.
normpath_lower(str) == Map(Chars(str), lower)

\* fnmatch.fnmatch(name, pat): * matches any run of characters, ? any one.
RECURSIVE fnmatch(_, _)
fnmatch(name, pat) ==
    IF pat = <<>> THEN name = <<>>
    ELSE IF Head(pat) = "*"
         THEN fnmatch(name, Tail(pat)) \/ (name # <<>> /\ fnmatch(Tail(name), pat))
         ELSE /\ name # <<>>
              /\ (Head(pat) = "?" \/ Head(pat) = Head(name))
              /\ fnmatch(Tail(name), Tail(pat))

\* is_excluded(path, exclusions): an exact path, or a glob pattern.
is_excluded(path, excl) ==
    \/ \E e \in excl.paths : normpath_lower(e) = normpath_lower(path)
    \/ \E pt \in excl.patterns : fnmatch(normpath_lower(path), Map(Chars(pt), lower))

\* What load_exclusions() can find in exclusions.json.
ExclusionFiles ==
    { ExclusionConfig({}, {}), ExclusionConfig({"F1"}, {}), ExclusionConfig({}, {"*X"}) }

----------------------------------------------------------------------------
\* main.py: main

\* _apply_filters, one item: kept unless excluded or modified after the cutoff
\* (young: the paths whose mtime is not older than the cutoff).
keep(it, excl, min_age, young) ==
    /\ ~is_excluded(it.path, excl)
    /\ ~(min_age > 0 /\ it.item_type # "registry_key" /\ it.path \in young)

\* _apply_filters(result, args, exclusions)
apply_filters(res, excl, min_age, young) ==
    [c \in 1..Len(res) |->
        [res[c] EXCEPT !.items = SelectSeq(@, LAMBDA it : keep(it, excl, min_age, young))]]

\* Auto mode: every category enabled, every item selected.
SelectAll(res) ==
    [c \in 1..Len(res) |->
        [res[c] EXCEPT !.enabled = TRUE,
                       !.items = Map(@, LAMBDA it : [it EXCEPT !.selected = TRUE])]]

\* The command lines main() is run with: every combination of the flags with a
\* profile of one modelled rule or an unknown profile, and an interactive run
\* with a profile of all modelled rules.
MainArgs ==
    { Args(lp, so, dr, au, ma, pf, ex) :
        lp \in BOOLEAN, so \in BOOLEAN, dr \in BOOLEAN, au \in BOOLEAN,
        ma \in {0, 7}, pf \in {"minimal", "nosuch"}, ex \in {{}, {"d1\\x"}} }
    \cup { Args(FALSE, FALSE, FALSE, FALSE, 0, "standard", {}) }

\* main() returns: nothing runs any more.
MainReturn(code) ==
    /\ exit_code' = code
    /\ mpc' = "m_done"
    /\ run' = "main"
    /\ pc' = "idle"

\* main() calls clean(result, log_dir): a new call, with its own threads.
CallClean ==
    /\ run' = "clean"
    /\ pc' = "begin"
    /\ mpc' = "m_clean"
    /\ workers' = <<>>
    /\ calls' = <<>>
    /\ ticks' = 0
    /\ ret' = NoReturn
    /\ progress' = NoProgress
    /\ UNCHANGED exit_code

\* From the start of main() to its call of scan_all().
MainBegin ==
    /\ run = "main" /\ mpc = "m_begin"
    /\ \E admin \in BOOLEAN, proceed \in BOOLEAN, file \in ExclusionFiles :
          IF args.list_profiles
          THEN /\ MainReturn(0)
               /\ UNCHANGED <<profile_rules, include_registry, progress_cb, exclusions>>
          ELSE IF ~admin /\ ~proceed
          THEN /\ MainReturn(1)
               /\ UNCHANGED <<profile_rules, include_registry, progress_cb, exclusions>>
          ELSE IF args.profile # None /\ args.profile \notin DOMAIN BUILTIN_PROFILES
          THEN /\ MainReturn(1)
               /\ UNCHANGED <<profile_rules, include_registry, progress_cb, exclusions>>
          ELSE /\ profile_rules' =
                     IF args.profile = None THEN [given |-> FALSE, names |-> {}]
                     ELSE [given |-> TRUE, names |-> BUILTIN_PROFILES[args.profile]]
               /\ include_registry' =
                     (\/ args.include_registry
                      \/ (args.profile # None /\ "registry" \in BUILTIN_PROFILES[args.profile]))
               /\ exclusions' = ExclusionConfig(file.paths \cup args.exclude, file.patterns)
               /\ progress_cb' = TRUE
               /\ run' = "scan" /\ pc' = "begin" /\ mpc' = "m_scan"
               /\ UNCHANGED exit_code
    /\ UNCHANGED <<rules, idx, error_holder, result, result_holder, workers, ticks,
                   progress, calls, ret, args, cat_idx, shown>>
    /\ UNCHANGED cleanVars
    /\ UNCHANGED envVars

\* The point of phase 2 after the categories before position k: the next
\* enabled category without scan error that has items, or the end (Len + 1).
RECURSIVE NextReview(_, _)
NextReview(res, k) ==
    IF k > Len(res) THEN k
    ELSE IF res[k].enabled /\ res[k].scan_error = None /\ res[k].items # <<>> THEN k
    ELSE NextReview(res, k + 1)

\* phase3_final_confirmation: the items counted for deletion.
ConfirmCount(res) ==
    SumSeq(Map(res, LAMBDA cat : IF cat.enabled /\ cat.scan_error = None
                                  THEN cat_selected_count(cat) ELSE 0))

\* A slip: the auto flag is looked at before the scan-only and dry-run flags.
MainAfterScanAutoFirst ==
    /\ mpc = "m_scan" /\ run = "scan" /\ pc = "done"
    /\ \E young \in (IF args.min_age > 0 THEN SUBSET (ItemPaths(result) \cap FsPaths) ELSE {{}}) :
          LET filtered == apply_filters(result, exclusions, args.min_age, young) IN
          IF total_items(filtered) = 0
          THEN /\ result' = filtered /\ MainReturn(0)
               /\ UNCHANGED <<workers, calls, ticks, ret, progress, shown>>
          ELSE IF args.auto
          THEN /\ result' = SelectAll(filtered) /\ CallClean
               /\ UNCHANGED shown
          ELSE IF args.scan_only \/ args.dry_run
          THEN /\ result' = filtered /\ MainReturn(0)
               /\ UNCHANGED <<workers, calls, ticks, ret, progress, shown>>
          ELSE /\ result' = filtered
               /\ mpc' = "m_phase1" /\ run' = "main" /\ pc' = "idle"
               /\ shown' = {"phase1"}
               /\ UNCHANGED <<workers, calls, ticks, ret, progress, exit_code>>
    /\ UNCHANGED <<result_holder, args, exclusions, cat_idx>>
    /\ UNCHANGED scanVars
    /\ UNCHANGED cleanVars
    /\ UNCHANGED envVars

\* After scan_all() returned: filter, show, and either return, or call clean()
\* (auto mode), or enter the review.
MainAfterScan ==
    /\ mpc = "m_scan" /\ run = "scan" /\ pc = "done"
    /\ \E young \in (IF args.min_age > 0 THEN SUBSET (ItemPaths(result) \cap FsPaths) ELSE {{}}) :
          LET filtered == apply_filters(result, exclusions, args.min_age, young) IN
          IF total_items(filtered) = 0
          THEN /\ result' = filtered /\ MainReturn(0)
               /\ UNCHANGED <<workers, calls, ticks, ret, progress, shown>>
          ELSE IF args.scan_only \/ args.dry_run
          THEN /\ result' = filtered /\ MainReturn(0)
               /\ UNCHANGED <<workers, calls, ticks, ret, progress, shown>>
          ELSE IF args.auto
          THEN /\ result' = SelectAll(filtered) /\ CallClean
               /\ UNCHANGED shown
          ELSE /\ result' = filtered
               /\ mpc' = "m_phase1" /\ run' = "main" /\ pc' = "idle"
               /\ shown' = {"phase1"}
               /\ UNCHANGED <<workers, calls, ticks, ret, progress, exit_code>>
    /\ UNCHANGED <<result_holder, args, exclusions, cat_idx>>
    /\ UNCHANGED scanVars
    /\ UNCHANGED cleanVars
    /\ UNCHANGED envVars

\* What the review leaves alone when it only moves between phases.
reviewFrame == <<run, pc, exit_code, workers, calls, ticks, ret, progress>>

\* Back to the top of the interactive loop: phase 1 is presented again.
GoPhase1 ==
    /\ mpc' = "m_phase1"
    /\ shown' = {"phase1"}
    /\ UNCHANGED <<reviewFrame, cat_idx>>

\* _review_category_items presents the items of category k.
GoPhase2(k) ==
    /\ mpc' = "m_phase2"
    /\ cat_idx' = k
    /\ shown' = shown \cup {"phase2"}
    /\ UNCHANGED reviewFrame

\* phase3_final_confirmation up to its prompt: without items counted it
\* returns False and main() goes back to phase 1.
GoPhase3 ==
    IF ConfirmCount(result) = 0
    THEN GoPhase1
    ELSE /\ mpc' = "m_phase3"
         /\ shown' = shown \cup {"phase3"}
         /\ UNCHANGED <<reviewFrame, cat_idx>>

\* phase2_item_drilldown goes on after the categories before position k.
AfterCategory(k) ==
    IF NextReview(result, k) <= Len(result)
    THEN GoPhase2(NextReview(result, k))
    ELSE GoPhase3

\* A choice that only edits the result; the same prompt is shown again.
EditResult(r) ==
    /\ result' = r
    /\ UNCHANGED <<reviewFrame, mpc, cat_idx, shown>>

\* phase1_category_selection: one choice at its prompt.  A number toggles the
\* category; cat_idx holds a position in result.categories (1-based).
phase1_category_selection ==
    /\ run = "main" /\ mpc = "m_phase1"
    /\ \E choice \in {"quit", "next", "all", "none", "number"}, n \in 1..Len(result) :
          CASE choice = "quit" ->
                  /\ MainReturn(0)
                  /\ UNCHANGED <<result, workers, calls, ticks, ret, progress, cat_idx, shown>>
            [] choice = "next" ->
                  IF ~\E c \in 1..Len(result) : result[c].enabled
                  THEN UNCHANGED <<result, reviewFrame, mpc, cat_idx, shown>>
                  ELSE AfterCategory(1) /\ UNCHANGED result
            [] choice = "all" ->
                  EditResult([c \in 1..Len(result) |->
                                 IF result[c].scan_error = None
                                 THEN [result[c] EXCEPT !.enabled = TRUE] ELSE result[c]])
            [] choice = "none" ->
                  EditResult([c \in 1..Len(result) |-> [result[c] EXCEPT !.enabled = FALSE]])
            [] OTHER ->
                  EditResult(IF result[n].scan_error = None
                             THEN [result EXCEPT ![n].enabled = ~@] ELSE result)
    /\ UNCHANGED <<result_holder, args, exclusions>>
    /\ UNCHANGED scanVars
    /\ UNCHANGED cleanVars
    /\ UNCHANGED envVars

\* _review_category_items: one choice at its prompt (paging shows other items
\* and changes nothing).
phase2_item_drilldown ==
    /\ run = "main" /\ mpc = "m_phase2"
    /\ \E choice \in {"next", "back", "sa", "da", "number"},
          n \in 1..Len(result[cat_idx].items) :
          CASE choice = "next" -> AfterCategory(cat_idx + 1) /\ UNCHANGED result
            [] choice = "back" -> GoPhase1 /\ UNCHANGED result
            [] choice = "sa" ->
                  EditResult([result EXCEPT ![cat_idx].items =
                                 Map(@, LAMBDA it : [it EXCEPT !.selected = TRUE])])
            [] choice = "da" ->
                  EditResult([result EXCEPT ![cat_idx].items =
                                 Map(@, LAMBDA it : [it EXCEPT !.selected = FALSE])])
            [] OTHER ->
                  EditResult([result EXCEPT ![cat_idx].items[n].selected = ~@])
    /\ UNCHANGED <<result_holder, args, exclusions>>
    /\ UNCHANGED scanVars
    /\ UNCHANGED cleanVars
    /\ UNCHANGED envVars

\* A slip: main() deletes as soon as phase 3 is reached, whatever is answered.
ConfirmedAlways(answer) == TRUE

\* phase3_final_confirmation: only the answer DELETE confirms.
Confirmed(answer) == answer = "DELETE"

\* phase3_final_confirmation: the answer at its prompt; main() calls clean()
\* when it returned True, else goes back to phase 1.
phase3_final_confirmation ==
    /\ run = "main" /\ mpc = "m_phase3"
    /\ \E answer \in {"DELETE", "back", "quit"} :
          IF Confirmed(answer)
          THEN /\ CallClean
               /\ shown' = shown \cup {answer}
               /\ UNCHANGED cat_idx
          ELSE GoPhase1
    /\ UNCHANGED <<result, result_holder, args, exclusions>>
    /\ UNCHANGED scanVars
    /\ UNCHANGED cleanVars
    /\ UNCHANGED envVars

\* After clean() returned: the report is shown and main() returns 0.
MainAfterClean ==
    /\ mpc = "m_clean" /\ run = "clean" /\ pc = "done"
    /\ MainReturn(0)
    /\ UNCHANGED <<result, result_holder, workers, calls, ticks, ret, progress,
                   args, exclusions, cat_idx, shown>>
    /\ UNCHANGED scanVars
    /\ UNCHANGED cleanVars
    /\ UNCHANGED envVars

\* Ctrl-C while main() runs: KeyboardInterrupt is raised in the main thread,
\* wherever it is (a prompt, the polling loop of scan_all or of clean), leaves
\* main(), and the handler prints "Interrupted. No changes made." and exits
\* with 130.  A worker thread is not told; it is a daemon thread and ends with
\* the process, some time after.
Interrupt ==
    /\ mpc \in {"m_begin", "m_scan", "m_phase1", "m_phase2", "m_phase3", "m_clean"}
    /\ MainReturn(130)
    /\ UNCHANGED <<result, result_holder, workers, calls, ticks, ret, progress,
                   args, exclusions, cat_idx, shown>>
    /\ UNCHANGED scanVars
    /\ UNCHANGED cleanVars
    /\ UNCHANGED envVars

InitMain ==
    /\ run = "main" /\ pc = "idle" /\ mpc = "m_begin"
    /\ args \in MainArgs
    /\ profile_rules = [given |-> FALSE, names |-> {}]
    /\ include_registry = FALSE /\ progress_cb = FALSE
    /\ result = <<>>
    /\ fs = EverythingThere
    /\ rules = <<>> /\ idx = 0 /\ error_holder = EmptyDict
    /\ items = <<>> /\ i = 0 /\ deleted = 0 /\ failed = 0 /\ freed = 0
    /\ log_rows = <<>> /\ log_path = ""
    /\ result_holder = EmptyDict /\ workers = <<>> /\ ticks = 0
    /\ progress = NoProgress /\ calls = <<>> /\ logfiles = EmptyDict
    /\ ret = NoReturn
    /\ answers = <<>> /\ now = 0 /\ prev_rows = <<>> /\ again = FALSE
    /\ exclusions = ExclusionConfig({}, {}) /\ shown = {}
    /\ cat_idx = 0 /\ exit_code = None

Init == InitScan \/ InitClean

Next ==
    \/ ScanBegin
    \/ ScanStart
    \/ ScanPollTick
    \/ ScanRecord
    \/ ScanReturn
    \/ \E k \in 1..Len(workers) : RunRule(k)
    \/ CleanBegin
    \/ CleanStart
    \/ CleanPollTick
    \/ CleanRecord
    \/ CleanReturn
    \/ \E k \in 1..Len(workers) : DoDelete(k)
    \/ \E k \in 1..Len(workers) : DoDeleteExcept(k)

Spec == Init /\ [][Next]_vars

\* One execution of main().
MainNext ==
    \/ Next
    \/ MainBegin
    \/ MainAfterScan
    \/ phase1_category_selection
    \/ phase2_item_drilldown
    \/ phase3_final_confirmation
    \/ MainAfterClean
    \/ Interrupt

SpecMain == InitMain /\ [][MainNext]_vars

\* clean(result) is called a second time on the same result, with the same
\* log_dir, after the first call returned; the wall clock, read to the second,
\* may or may not have moved on.
CleanAgain ==
    /\ run = "clean" /\ pc = "done" /\ ~again
    /\ again' = TRUE
    /\ now' \in {now, now + 1}
    /\ prev_rows' = log_rows
    /\ pc' = "begin"
    /\ items' = <<>> /\ i' = 0 /\ deleted' = 0 /\ failed' = 0 /\ freed' = 0
    /\ log_rows' = <<>> /\ log_path' = ""
    /\ workers' = <<>> /\ ticks' = 0 /\ calls' = <<>> /\ answers' = <<>>
    /\ progress' = NoProgress
    /\ ret' = NoReturn
    /\ UNCHANGED <<run, result, result_holder, logfiles, fs>>
    /\ UNCHANGED scanVars
    /\ UNCHANGED mainVars

\* The steps of a deletion run.
CleanNext ==
    \/ CleanBegin
    \/ CleanStart
    \/ CleanPollTick
    \/ CleanRecord
    \/ CleanReturn
    \/ \E k \in 1..Len(workers) : DoDelete(k)
    \/ \E k \in 1..Len(workers) : DoDeleteExcept(k)

RerunNext ==
    \/ CleanNext
    \/ CleanAgain

\* The results whose deletion is run twice hold selected items only.
InitRerun ==
    /\ InitClean
    /\ selected_items(result) = total_items(result)
    /\ selected_items(result) <= MaxRerunSelected

\* A deletion run, and the same deletion run once more.
SpecRerun == InitRerun /\ [][RerunNext]_vars

\* The main thread runs when it can, and so does a started worker thread;
\* every call a strategy makes returns or raises (subprocess.run is given
\* timeout=600).
CleanFairness ==
    /\ WF_vars(CleanBegin \/ CleanStart \/ CleanPollTick \/ CleanRecord \/ CleanReturn)
    /\ WF_vars(\E k \in 1..Len(workers) : DoDelete(k) \/ DoDeleteExcept(k))

\* A deletion run whose threads are scheduled.
SpecCleanFair == InitClean /\ [][CleanNext]_vars /\ CleanFairness

----------------------------------------------------------------------------
\* Properties of the deletion run.

CleanDone == run = "clean" /\ pc = "done"

\* The positions (category, item) of the selected items of a ScanResult.
SelectedPositions(res) ==
    { <<c, j>> \in (1..Len(res)) \X (1..MaxItems + 1) :
        j <= Len(res[c].items) /\ res[c].items[j].selected }

\* p comes before q in category order, then item order.
Before(p, q) == p[1] < q[1] \/ (p[1] = q[1] /\ p[2] < q[2])

\* The number of selected positions before p: the index of p's item in the visit order.
Rank(res, p) == Cardinality({ q \in SelectedPositions(res) : Before(q, p) })

\* How often path was handed to a delete strategy.
Attempts(path) == Cardinality({ n \in 1..Len(calls) : calls[n] = path })

\* C1: when clean() has returned, deleted_count + failed_count is the number
\* of selected items of the result, whatever each strategy did (returned true,
\* returned false, raised); each selected item was handed to a strategy exactly
\* once and has exactly one log row, and no unselected item was attempted.
C1_CountsCoverSelected ==
    CleanDone =>
        /\ ret.deleted + ret.failed = selected_items(result)
        /\ Len(calls) = selected_items(result)
        /\ Len(log_rows) = selected_items(result)
        /\ \A c \in 1..Len(result) : \A j \in 1..Len(result[c].items) :
              Attempts(result[c].items[j].path) =
                  IF result[c].items[j].selected THEN 1 ELSE 0
        /\ ret.deleted = Cardinality({ n \in 1..Len(log_rows) : log_rows[n].status = "deleted" })
        /\ ret.failed = Cardinality({ n \in 1..Len(log_rows) : log_rows[n].status = "failed" })

\* A finished run in which one strategy succeeded, one returned false and one raised.
C1_Witness ==
    /\ CleanDone
    /\ ret.deleted >= 1 /\ ret.failed >= 2
    /\ \E k \in 1..Len(workers) : workers[k].out.kind = "raise"
    /\ \E k \in 1..Len(workers) : workers[k].out.kind = "return" /\ ~workers[k].out.ok
    /\ selected_items(result) < total_items(result)

\* C2: when clean() has returned, bytes_freed is the sum of size_bytes over the
\* log rows with status "deleted"; a failed row adds nothing, whatever its size.
C2_FreedIsSumOfDeleted ==
    CleanDone =>
        ret.freed = SumSeq(Map(log_rows,
                        LAMBDA r : IF r.status = "deleted" THEN r.size_bytes ELSE 0))

\* A finished run with a failed item of non-zero size and a deleted item of non-zero size.
C2_Witness ==
    /\ CleanDone
    /\ \E n \in 1..Len(log_rows) : log_rows[n].status = "failed" /\ log_rows[n].size_bytes > 0
    /\ \E n \in 1..Len(log_rows) : log_rows[n].status = "deleted" /\ log_rows[n].size_bytes > 0

\* C3 (as claimed): the row of an item whose strategy raised has status
\* "failed" and carries the message of what was raised as its error; the run
\* goes on to every later selected item and returns.
C3_RaiseRecordedWithMessage ==
    /\ \A k \in 1..Len(log_rows) :
          workers[k].out.kind = "raise" =>
              /\ log_rows[k].status = "failed"
              /\ log_rows[k].error = workers[k].out.msg
    /\ CleanDone => Len(log_rows) = selected_items(result)

\* C4: the log rows are the selected items in category order, then item
\* order: at every moment of a run the n-th row is the row of the n-th selected
\* item in that order, however many poll ticks each deletion took, and at the
\* return there is one row per selected item.
C4_RowsInVisitOrder ==
    run = "clean" =>
        /\ \A p \in SelectedPositions(result) :
              Rank(result, p) < Len(log_rows) =>
                  log_rows[Rank(result, p) + 1].path = result[p[1]].items[p[2]].path
        /\ Len(log_rows) <= selected_items(result)
        /\ CleanDone => Len(log_rows) = selected_items(result)

\* A finished run over two categories, two selected items in one of them,
\* whose last deletion outlived a poll timeout.
C4_Witness ==
    /\ CleanDone
    /\ Len(log_rows) >= 3
    /\ \E c \in 1..Len(result) : cat_selected_count(result[c]) >= 2
    /\ \E c, d \in 1..Len(result) :
          c # d /\ cat_selected_count(result[c]) >= 1 /\ cat_selected_count(result[d]) >= 1
    /\ ticks = 1

\* C5: a deletion run over a result without selected items starts no worker,
\* calls no strategy, writes no log file, leaves the result as it was, and
\* returns (0, 0, 0, "", 0.0).
C5_NothingSelectedNothingDone ==
    (run = "clean" /\ selected_items(result) = 0) =>
        /\ workers = <<>>
        /\ calls = <<>>
        /\ logfiles = EmptyDict
        /\ log_path = ""
        /\ pc \in {"begin", "done"}
        /\ pc = "done" =>
              /\ ret.kind = "clean"
              /\ ret.deleted = 0 /\ ret.failed = 0 /\ ret.freed = 0
              /\ ret.log_path = "" /\ ret.duration = "0.0"

\* A returned run over a result that holds items, none of them selected.
C5_Witness ==
    /\ CleanDone
    /\ total_items(result) >= 2
    /\ selected_items(result) = 0

----------------------------------------------------------------------------
\* Properties of the scan run.

ScanDone == run = "scan" /\ pc = "done"

\* The categories of the result that carry this name.
Named(res, name) == { c \in 1..Len(res) : res[c].name = name }

\* The place of a rule in the rule list.
RuleIndex(name) == CHOOSE k \in 1..Len(rules) : rules[k] = name

\* C6: a rule whose scan() raised has exactly one category in the result, with
\* scan_error set and no items; every rule of the list is run, the ones after
\* the failing rule included, and scan_all returns its result.
C6_RaisingRuleIsolated ==
    /\ run = "scan" =>
          \A k \in 1..idx :
              workers[k].out.kind = "raise" =>
                  /\ Cardinality(Named(result, rules[k])) = 1
                  /\ \A c \in Named(result, rules[k]) :
                        result[c].scan_error # None /\ result[c].items = <<>>
    /\ ScanDone =>
          /\ ret.kind = "ScanResult" /\ ret.categories = result
          /\ calls = rules
          /\ Len(workers) = Len(rules)

\* A returned scan in which a rule raised and a later rule's category was appended.
C6_Witness ==
    /\ ScanDone
    /\ \E k \in 1..Len(rules) :
          /\ workers[k].out.kind = "raise"
          /\ \E m \in (k + 1)..Len(rules) :
                workers[m].out.kind = "category" /\ Named(result, rules[m]) # {}

\* C7: the categories of the result stand in the relative order of their rules
\* in the rule list, whatever the rules' durations.
C7_CategoriesInRuleOrder ==
    run = "scan" =>
        \A a, b \in 1..Len(result) :
            a < b => RuleIndex(result[a].name) < RuleIndex(result[b].name)

\* A returned scan whose first category took longer to scan than a later one.
C7_Witness ==
    /\ ScanDone
    /\ Len(result) >= 2
    /\ \E b \in 2..Len(result) : result[1].scan_duration_s > result[b].scan_duration_s

\* C8: every category of the result either has scan_error set and no items,
\* or has no scan_error and at least one item; a rule that returned no items
\* has no category.
C8_CategoryShapes ==
    run = "scan" =>
        /\ \A c \in 1..Len(result) :
              \/ result[c].scan_error # None /\ result[c].items = <<>>
              \/ result[c].scan_error = None /\ Len(result[c].items) >= 1
        /\ \A k \in 1..idx :
              (workers[k].out.kind = "category" /\ workers[k].out.items = <<>>)
              => Named(result, rules[k]) = {}

\* A returned scan with an error category, a category with items, and a rule
\* that returned a category without items.
C8_Witness ==
    /\ ScanDone
    /\ \E c \in 1..Len(result) : result[c].scan_error # None
    /\ \E c \in 1..Len(result) : Len(result[c].items) >= 1
    /\ \E k \in 1..Len(rules) :
          workers[k].out.kind = "category" /\ workers[k].out.items = <<>>

\* The scenario of C9: three rules A, B, C; A returned two items of sizes 100
\* and 200, B raised, C returned a category without items; scan_all has returned.
C9_Scenario ==
    /\ ScanDone
    /\ Len(rules) = 3
    /\ workers[1].out.kind = "category"
    /\ Map(workers[1].out.items, LAMBDA it : it.size) = <<100, 200>>
    /\ workers[2].out.kind = "raise"
    /\ workers[3].out.kind = "category" /\ workers[3].out.items = <<>>

\* C9 (as claimed): in the scenario the returned result has exactly 1 category.
C9_ExactlyOneCategory ==
    C9_Scenario => Len(ret.categories) = 1

\* C9 (amended): in the scenario the returned result has exactly 2 categories:
\* A's, without scan_error, with 2 items and 300 bytes, then B's error
\* category without items; C has none; the result totals 2 items and 300 bytes.
C9_ScenarioResult ==
    C9_Scenario =>
        /\ Len(ret.categories) = 2
        /\ ret.categories[1].name = rules[1]
        /\ ret.categories[1].scan_error = None
        /\ item_count(ret.categories[1]) = 2
        /\ cat_total_size(ret.categories[1]) = 300
        /\ ret.categories[2].name = rules[2]
        /\ ret.categories[2].scan_error # None
        /\ ret.categories[2].items = <<>>
        /\ Named(ret.categories, rules[3]) = {}
        /\ total_items(ret.categories) = 2
        /\ total_size(ret.categories) = 300

\* The scenario is reached, with a progress sink attached.
C9_Witness == C9_Scenario /\ progress_cb

----------------------------------------------------------------------------
\* Properties of both runs.

\* The outcomes recorded so far: rules handled by a scan, items handled by a deletion.
Recorded == IF run = "scan" THEN idx ELSE i

\* C10: at most one worker is alive; every worker but the last started has
\* finished, and the last was started only after the outcomes of all before
\* it were recorded.
C10_OneWorkerAtATime ==
    /\ Cardinality({ k \in 1..Len(workers) : workers[k].st # "done" }) <= 1
    /\ \A k \in 1..(Len(workers) - 1) : workers[k].st = "done"
    /\ Len(workers) <= Recorded + 1
    /\ Len(workers) = Recorded + 1 => pc \in {"s_poll", "c_poll"}

\* A second worker is alive and has outlived a poll timeout.
C10_Witness ==
    /\ Len(workers) >= 2
    /\ worker.st # "done"
    /\ ticks >= 1

\* C11: the orchestrator reads a worker's slot (the step that records the
\* outcome and advances the loop index) only when that worker has finished, and
\* a slot changes only while the orchestrator is still polling for the worker
\* it belongs to: no write follows the read.
C11_SlotReadAfterFinish ==
    [][ /\ (idx' = idx + 1 \/ i' = i + 1) => (workers # <<>> /\ worker.st = "done")
        /\ (result_holder' # result_holder \/ error_holder' # error_holder) =>
              /\ pc' \in {"s_poll", "c_poll"}
              /\ Len(workers') = Recorded' + 1 ]_vars

\* The orchestrator has read a slot the worker wrote twice (raised, then the
\* message) after outliving a poll timeout.
C11_Witness ==
    /\ run = "clean" /\ pc = "c_loop" /\ i >= 1
    /\ ticks = 1
    /\ "err" \in DOMAIN result_holder
    /\ log_rows[i].status = "failed"

----------------------------------------------------------------------------
\* Properties of an execution of main().

\* The staged review was presented and confirmed.
Reviewed == {"phase1", "phase2", "phase3", "DELETE"} \subseteq shown

\* clean() has been invoked.
CleanInvoked == mpc = "m_clean" \/ run = "clean" \/ answers # <<>>

\* C12 (as claimed): in every execution of main(), clean() is invoked only
\* after the staged review (category selection, item review, final
\* confirmation) was presented and confirmed.
C12_CleanOnlyAfterReview ==
    CleanInvoked => Reviewed

\* C12 (amended): without --auto, clean() is invoked only after the staged
\* review was presented and confirmed with DELETE; with --auto, and neither
\* --scan-only nor --dry-run, clean() is invoked without any review; nothing
\* is deleted before clean() is invoked.
C12_CleanAfterReviewUnlessAuto ==
    /\ CleanInvoked =>
          IF args.auto
          THEN ~args.scan_only /\ ~args.dry_run /\ shown = {}
          ELSE Reviewed
    /\ ~CleanInvoked => (fs = EverythingThere /\ logfiles = EmptyDict)

\* A deletion run that follows a review in which the user first went into the
\* item review, and that has deleted something.
C12_Witness ==
    /\ mpc = "m_clean" /\ ~args.auto
    /\ Reviewed
    /\ \E p \in FsPaths : fs[p] = "absent"

\* C13: run with --scan-only or --dry-run, whatever the other flags, main()
\* never invokes clean(), starts no delete worker and deletes nothing.
C13_NoDeletionWhenScanOnlyOrDryRun ==
    (run # "none" /\ mpc # "none" /\ (args.scan_only \/ args.dry_run)) =>
        /\ ~CleanInvoked
        /\ \A k \in 1..Len(workers) : workers[k].target # "_do_delete"
        /\ fs = EverythingThere
        /\ log_rows = <<>> /\ logfiles = EmptyDict

\* main() has returned 0 from a run with --dry-run and --auto that found items.
C13_Witness ==
    /\ mpc = "m_done" /\ exit_code = 0
    /\ args.dry_run /\ args.auto
    /\ total_items(result) > 0

\* C14 (as claimed): once the exclusions are loaded, a path that matches an
\* exclusion entry is never deleted, also when it lies inside a directory that
\* is a selected item.
C14_ExcludedNeverDeleted ==
    mpc \notin {"none", "m_begin"} =>
        \A p \in FsPaths : is_excluded(p, exclusions) => fs[p] # "absent"

----------------------------------------------------------------------------
\* Properties of the audit log.

\* The last thing the operating system answered.
LastAnswer == answers[Len(answers)]

\* The number of rows with the given status.
RowCount(rows, status) == Len(SelectSeq(rows, LAMBDA r : r.status = status))

\* C15: the log file is written in one step only, the one in which clean()
\* returns, after every selected item has been attempted and has its row; a
\* write that succeeds leaves all rows in the file at log_path and touches no
\* other file; whether or not the write succeeds, clean() returns the counts
\* of the rows and raises nothing.
C15_LogWrittenOnceAtEnd ==
    [][ /\ logfiles' # logfiles =>
              /\ pc = "c_loop" /\ pc' = "done"
              /\ i = Len(items) /\ Len(log_rows) = Len(items)
              /\ \A p \in DOMAIN logfiles : p # log_path => logfiles'[p] = logfiles[p]
              /\ DOMAIN logfiles' = DOMAIN logfiles \cup {log_path}
        /\ (run = "clean" /\ pc = "c_loop" /\ pc' = "done") =>
              /\ LastAnswer' = "log_written" =>
                    (log_path \in DOMAIN logfiles' /\ logfiles'[log_path] = log_rows)
              /\ ret' = CleanResult(RowCount(log_rows, "deleted"),
                                    RowCount(log_rows, "failed"),
                                    freed, log_path, "elapsed") ]_vars

\* clean() has returned its counts after a failed write of a log of two rows,
\* one of them 'deleted'.
C15_Witness ==
    /\ CleanDone /\ Len(items) = 2
    /\ LastAnswer = "log_failed"
    /\ log_path \notin DOMAIN logfiles
    /\ ret.deleted = 1 /\ ret.failed = 1

----------------------------------------------------------------------------
\* The scenario of three selected items.

\* clean() was called with exactly three items, all selected, and has
\* returned: the file f1 was there and was removed, the file f2 had gone since
\* the scan, and the directory d1 was there, held an entry, and was removed
\* with it.
C18_Scenario ==
    /\ CleanDone
    /\ total_items(result) = 3 /\ Len(items) = 3
    /\ items[1].path = "f1" /\ answers[1] = "removed"
    /\ items[2].path = "d1" /\ answers[2] = "removed_tree"
    /\ items[3].path = "f2" /\ answers[3] = "absent"

\* C18 (as claimed): in the scenario, clean() returns deleted 3, failed 0 and
\* bytesFreed = size(f1) + 0 + size(d1), the missing file counting 0 bytes,
\* and the log has three rows, all 'deleted'.
C18_MissingFileFreesNothing ==
    C18_Scenario =>
        /\ ret.deleted = 3 /\ ret.failed = 0
        /\ ret.freed = 100 + 0 + 200
        /\ Len(log_rows) = 3
        /\ \A k \in 1..3 : log_rows[k].status = "deleted"

----------------------------------------------------------------------------
\* A directory that cannot be emptied.

\* C19: when rmtree cannot remove an entry of a directory item and the retry
\* of _on_rm_error fails too, nothing is raised, the directory is still there
\* and the item's row is 'failed'; the run goes on to the items after it and
\* returns the counts of the rows.
C19_StuckDirectoryFails ==
    run = "clean" =>
        /\ \A k \in 1..Len(answers) :
              answers[k] = "retry_failed" =>
                 /\ items[k].item_type = "directory"
                 /\ workers[k].out.kind = "return"
                 /\ isdir(fs, items[k].path)
                 /\ k <= Len(log_rows) =>
                       /\ log_rows[k].status = "failed"
                       /\ log_rows[k].error = "Delete returned False"
        /\ CleanDone /\ items # <<>> =>
              /\ Len(calls) = Len(items) /\ Len(log_rows) = Len(items)
              /\ ret.deleted = RowCount(log_rows, "deleted")
              /\ ret.failed = RowCount(log_rows, "failed")

\* The run has returned; the entry inside d1 could not be removed, d1 has a
\* 'failed' row and the item after it was deleted and is counted.
C19_Witness ==
    /\ CleanDone
    /\ fs["d1\\x"] = "file"
    /\ \E k \in 1..(Len(items) - 1) :
          /\ answers[k] = "retry_failed"
          /\ log_rows[k].status = "failed"
          /\ log_rows[k + 1].status = "deleted"
    /\ ret.deleted = 1 /\ ret.failed = 1

----------------------------------------------------------------------------
\* Properties of two deletion runs into the same log directory.

\* C16 (as claimed): a log file, once written, is never modified or
\* overwritten, by the run that wrote it or by a later run into the same
\* log directory.
C16_LogFilesNeverOverwritten ==
    [][\A p \in DOMAIN logfiles : p \in DOMAIN logfiles' /\ logfiles'[p] = logfiles[p]]_vars

\* C17: a File or Directory strategy called on a path that is not there
\* reports success and leaves the filesystem as it is; when the same deletion
\* is run a second time, every File or Directory item the first run recorded
\* as deleted is recorded as deleted again, never as failed.
C17_DeleteIsIdempotent ==
    [][ /\ \A k \in 1..Len(workers) :
              (/\ Len(workers') = Len(workers)
               /\ workers[k].st = "alive" /\ workers'[k].st # "alive"
               /\ workers[k].itm.item_type \in {"file", "directory"}
               /\ ~exists(fs, workers[k].itm.path)) =>
                  /\ workers'[k].out = Outcome("return", <<>>, "", TRUE)
                  /\ result_holder'["ok"] = TRUE
                  /\ fs' = fs
        /\ again' =>
              \A k \in 1..Len(log_rows') :
                  (/\ log_rows'[k].type \in {"file", "directory"}
                   /\ prev_rows'[k].status = "deleted") =>
                      log_rows'[k].status = "deleted" ]_vars

\* The second run has returned; the first had deleted f1 and the directory d1,
\* and the second records both as deleted again.
C17_Witness ==
    /\ again /\ CleanDone
    /\ Len(log_rows) >= 2
    /\ log_rows[1].path = "f1" /\ log_rows[2].path = "d1"
    /\ prev_rows[1].status = "deleted" /\ prev_rows[2].status = "deleted"
    /\ log_rows[1].status = "deleted" /\ log_rows[2].status = "deleted"
    /\ answers[1] = "absent" /\ answers[2] = "absent"

----------------------------------------------------------------------------
\* Command items.

\* C20: a Command item is recorded as deleted exactly when its process
\* exited with code 0 within the timeout; a timeout or a failure to start the
\* process gives 'failed'; and once the worker of a Command item is started,
\* the run gets to the next item or returns.
C20_CommandOutcome ==
    /\ [](run = "clean" =>
            \A k \in 1..Len(log_rows) :
                items[k].item_type = "command" =>
                   /\ log_rows[k].status = "deleted" <=> answers[k] = "exit0"
                   /\ answers[k] \in {"timeout", "oserror"} =>
                         (log_rows[k].status = "failed" /\ workers[k].out.kind = "return"))
    /\ \A n \in 1..MaxSelected :
          (run = "clean" /\ pc = "c_poll" /\ i = n - 1 /\ items[n].item_type = "command")
             ~> (run = "clean" /\ i = n /\ pc \in {"c_poll", "done"})

\* The run has returned; the command timed out, has a 'failed' row, and the
\* item after it was attempted.
C20_Witness ==
    /\ CleanDone
    /\ \E k \in 1..(Len(items) - 1) :
          /\ items[k].item_type = "command"
          /\ answers[k] = "timeout"
          /\ log_rows[k].status = "failed"
          /\ Len(calls) > k

----------------------------------------------------------------------------
\* Failures of Command and RegistryKey items.

\* C21 (as claimed): a Command item whose process ran into the timeout has a
\* 'failed' row whose error differs from the error of a command that exited
\* non-zero and of a strategy that returned False.
C21_TimeoutErrorDistinct ==
    run = "clean" =>
        \A k \in 1..Len(log_rows) :
            (items[k].item_type = "command" /\ answers[k] = "timeout") =>
                /\ log_rows[k].status = "failed"
                /\ log_rows[k].error # LogRow(items[k], run_cleanup_command("exit1"), "").error
                /\ log_rows[k].error # ErrorMsg(FALSE, "")

\* C22: when registry_analyzer cannot be imported, a RegistryKey item is
\* recorded as failed, nothing is raised out of the strategy, and the run
\* attempts every selected item and returns the counts of the rows.
C22_RegistryUnavailableFails ==
    run = "clean" =>
        /\ \A k \in 1..Len(answers) :
              answers[k] = "import_error" =>
                 /\ items[k].item_type = "registry_key"
                 /\ workers[k].out.kind = "return"
                 /\ k <= Len(log_rows) => log_rows[k].status = "failed"
        /\ CleanDone /\ items # <<>> =>
              /\ Len(calls) = Len(items) /\ Len(log_rows) = Len(items)
              /\ \A k \in 1..Len(items) : calls[k] = items[k].path
              /\ ret.failed = RowCount(log_rows, "failed")

\* The run has returned; the registry key failed on the import, and the items
\* before and after it were attempted, the one after it deleted.
C22_Witness ==
    /\ CleanDone /\ Len(items) = 3
    /\ answers[2] = "import_error"
    /\ log_rows[2].status = "failed"
    /\ log_rows[3].status = "deleted"
    /\ ret.failed >= 1 /\ ret.deleted >= 1

----------------------------------------------------------------------------
\* The derived totals during the review.

\* The review is at one of its prompts.
InReview == mpc \in {"m_phase1", "m_phase2", "m_phase3"}

\* C23 (as claimed): a change of a category's enabled flag is reflected in
\* the next read of the selected count: enabling or disabling a category that
\* holds selected items changes selected_items.
C23_EnabledChangeReflected ==
    [][\A c \in 1..Len(result) :
          (/\ InReview /\ Len(result') = Len(result)
           /\ result'[c].enabled # result[c].enabled
           /\ \A d \in 1..Len(result) : result'[d].items = result[d].items
           /\ cat_selected_count(result[c]) > 0) =>
              selected_items(result') # selected_items(result)]_vars

\* C23 (amended): the derived totals are recomputed on every read from the
\* items' selected flags: after any sequence of review actions the selected
\* count is the number of items whose flag is set, the selected size the sum
\* of their sizes, whatever the categories' enabled flags are.
C23_TotalsFollowSelected ==
    InReview =>
        /\ selected_items(result) = Cardinality(SelectedPositions(result))
        /\ selected_size(result) =
              SumSeq(Map(CollectSelected(result), LAMBDA it : it.size))
        /\ total_items(result) = Len(Flatten(Map(result, LAMBDA cat : cat.items)))
        /\ selected_items(result) =
              selected_items([c \in 1..Len(result) |-> [result[c] EXCEPT !.enabled = TRUE]])

\* Phase 1 is shown after the user deselected an item and disabled a category
\* that holds a selected item.
C23_Witness ==
    /\ mpc = "m_phase1"
    /\ \E c \in 1..Len(result) : ~result[c].enabled /\ cat_selected_count(result[c]) >= 1
    /\ selected_items(result) < total_items(result)
    /\ selected_size(result) > 0

----------------------------------------------------------------------------
\* The rules a scan runs.

\* The filter of scan_all, by rule name.
Wanted(name) ==
    IF profile_rules.given THEN name \in profile_rules.names
    ELSE include_registry \/ name # "registry"

----------------------------------------------------------------------------
\* Completion of a deletion run.

\* clean() has returned its tuple: the counts cover every selected item and
\* the log path is the one computed at the start ("" without selected items).
Returned ==
    /\ CleanDone /\ ret.kind = "clean"
    /\ ret.deleted + ret.failed = selected_items(result)
    /\ ret.deleted = RowCount(log_rows, "deleted")
    /\ ret.failed = RowCount(log_rows, "failed")
    /\ ret.freed = freed
    /\ ret.log_path = (IF selected_items(result) = 0 THEN "" ELSE LogPath(now))

\* C25: a deletion run always completes: whatever is selected and whatever
\* the strategies answer, clean() eventually returns the full counts and the
\* log path.
C25_CleanAlwaysReturns == <>Returned

\* The run has returned all counts after a strategy raised, another returned
\* False, a third succeeded, and the log could not be written.
C25_Witness ==
    /\ Returned /\ Len(items) = 3
    /\ \E k \in 1..3 : workers[k].out.kind = "raise"
    /\ \E k \in 1..3 : workers[k].out.kind = "return" /\ ~workers[k].out.ok
    /\ ret.deleted = 1 /\ ret.failed = 2
    /\ LastAnswer = "log_failed"

----------------------------------------------------------------------------
\* The progress sink of a scan.

\* C26: in a scan with a progress sink, the sink has been called before the
\* first rule runs and is called with "Done" when the scan returns; from call
\* to call the completed count does not decrease, it never exceeds the total,
\* and in the last call it equals the total, the number of rules run.
C26_ProgressMonotone ==
    [][(run = "scan" /\ run' = "scan" /\ progress_cb /\ mpc = "none") =>
          /\ progress'.completed >= progress.completed
          /\ progress'.completed <= progress'.total
          /\ progress' # NoProgress => progress'.total = Len(rules')
          /\ calls' # <<>> => progress' # NoProgress
          /\ workers' # <<>> => progress' # NoProgress
          /\ pc' = "done" =>
                /\ progress'.label = "Done"
                /\ progress'.completed = progress'.total
                /\ progress'.completed = Len(calls') ]_vars

\* A scan of three rules with a sink has returned; the last call was
\* ("Done", 3, 3) and a poll tick had reported in between.
C26_Witness ==
    /\ ScanDone /\ progress_cb
    /\ Len(rules) = 3 /\ ticks = 1
    /\ progress = [label |-> "Done", completed |-> 3, total |-> 3]

----------------------------------------------------------------------------
\* What a confirmed deletion run attempts.

\* The items phase 3 counts: the selected items of the categories that are
\* enabled and have no scan error, in category order then item order.
ConfirmItems(res) ==
    Flatten(Map(res, LAMBDA cat :
        IF cat.enabled /\ cat.scan_error = None
        THEN SelectSeq(cat.items, LAMBDA it : it.selected) ELSE <<>>))

\* C27 (as claimed): the items a confirmed deletion run attempts are the items
\* counted in the final confirmation, and no item of a category the user
\* disabled is handed to a delete strategy.
C27_AttemptsWhatWasConfirmed ==
    (mpc = "m_clean" /\ Reviewed /\ pc # "begin") =>
        /\ items = ConfirmItems(result)
        /\ Len(calls) <= ConfirmCount(result)
        /\ \A k \in 1..Len(workers) :
              \E c \in 1..Len(result) :
                  result[c].enabled /\ \E j \in 1..Len(result[c].items) :
                                          result[c].items[j] = workers[k].itm

----------------------------------------------------------------------------
\* What 'deleted' says about the filesystem.

\* C28 (as claimed): a File or Directory item recorded as 'deleted' has no
\* entry of any kind left at its path.
C28_DeletedMeansGone ==
    run = "clean" =>
        \A k \in 1..Len(log_rows) :
            (/\ log_rows[k].type \in {"file", "directory"}
             /\ log_rows[k].status = "deleted") =>
                ~exists(fs, log_rows[k].path)

----------------------------------------------------------------------------
\* The interrupt handler.

\* C29 (as claimed): when main() has ended through the interrupt handler,
\* nothing has been deleted and no delete strategy is still running.
C29_InterruptedMeansUnchanged ==
    (mpc = "m_done" /\ exit_code = 130) =>
        /\ fs = EverythingThere
        /\ answers = <<>>
        /\ \A k \in 1..Len(workers) :
              workers[k].target = "_do_delete" => workers[k].st = "done"

----------------------------------------------------------------------------
\* The task of the k-th turn of the loop: a rule's name, an item's path.
Task(k) == IF run = "scan" THEN rules[k] ELSE items[k].path

\* C30: every worker does the task of its own turn of the loop and stores what
\* came of it in the holders of that turn, and what the orchestrator records
\* for turn k is the outcome of worker k: the k-th call is task k; while the
\* orchestrator polls, the holders hold what the worker it polls for stored
\* and nothing else; the category of rule k, or the log row of item k, says
\* what worker k's call returned or raised.
C30_OutcomeOfOwnTask ==
    /\ Len(calls) <= Len(workers)
    /\ \A k \in 1..Len(calls) : calls[k] = Task(k)
    /\ \A k \in 1..Len(workers) :
          /\ run = "clean" => workers[k].itm = items[k]
          /\ (run = "scan" /\ workers[k].out.kind # "pending") =>
                workers[k].out.name = rules[k]
    /\ pc = "s_poll" =>
          IF worker.st = "alive"
          THEN result_holder = EmptyDict /\ error_holder = EmptyDict
          ELSE /\ result_holder = StoreCategory(EmptyDict, worker.out)
               /\ error_holder = StoreTrace(EmptyDict, worker.out)
    /\ pc = "c_poll" =>
          IF worker.st = "alive"
          THEN result_holder = EmptyDict
          ELSE /\ "ok" \in DOMAIN result_holder
               /\ result_holder["ok"] = (worker.out.kind = "return" /\ worker.out.ok)
               /\ "err" \in DOMAIN result_holder =>
                     worker.out.kind = "raise" /\ result_holder["err"] = worker.out.msg
    /\ run = "scan" =>
          \A k \in 1..idx :
              LET o == workers[k].out
                  cats == Named(result, rules[k])
              IN IF o.kind = "raise"
                 THEN /\ Cardinality(cats) = 1
                      /\ \A c \in cats : result[c].scan_error # None
                 ELSE IF o.items # <<>>
                      THEN /\ Cardinality(cats) = 1
                           /\ \A c \in cats :
                                 result[c].items = o.items /\ result[c].scan_error = None
                      ELSE cats = {}
    /\ run = "clean" =>
          \A k \in 1..i :
              LET o == workers[k].out IN
              /\ log_rows[k].path = items[k].path
              /\ log_rows[k].path = calls[k]
              /\ (log_rows[k].status = "deleted") = (o.kind = "return" /\ o.ok)
              /\ (o.kind = "raise" /\ o.msg # "") => log_rows[k].error = o.msg

\* A returned scan of two rules or more whose first rule found items and whose
\* second, polled for past a timeout, raised: each is recorded under its own name.
C30_Witness ==
    /\ ScanDone /\ Len(rules) >= 2
    /\ calls[1] = rules[1] /\ calls[2] = rules[2]
    /\ workers[1].out.kind = "category" /\ workers[1].out.items # <<>>
    /\ workers[2].out.kind = "raise"
    /\ \E c \in Named(result, rules[1]) : result[c].items = workers[1].out.items
    /\ \E c \in Named(result, rules[2]) : result[c].scan_error # None

====
